---- MODULE Spec2Model ----
(***************************************************************************)
(* Model of the retrieval pipeline of src/rag/rag_bedrock_real.py:         *)
(* split_into_chunks (the chunker), create_vector_store (the TF-IDF index) *)
(* and retrieve_relevant_chunks (cosine-similarity ranking), driven the    *)
(* way main() drives them: split once, build once, then query in a loop.   *)
(*                                                                         *)
(* A Python str is a sequence of one-character strings, so that            *)
(* str.split(), str.strip() and the length test of the chunker work on     *)
(* characters.  Python's 0-based positions are 1-based here.               *)
(***************************************************************************)
EXTENDS Integers, Sequences, FiniteSets, TLC

\* ---------------------------------------------------------------- bounds
\* A document text is the concatenation of at most MaxPieces pieces.
MaxPieces == 2
\* chunk_size ranges over -1 .. MaxChunkSize (and the values named below).
MaxChunkSize == 6
\* k ranges over -1 .. MaxK.
MaxK == 3

\* ------------------------------------------------------ program constants
\* split_into_chunks(text, chunk_size=1000)
DefaultChunkSize == 1000
\* retrieve_relevant_chunks(..., k=3)
DefaultK == 3

\* ------------------------------------------------------------ input sets
SP == <<" ">>
ab == <<"a", "b">>
ba == <<"b", "a">>
alpha == <<"a", "l", "p", "h", "a">>
beta == <<"b", "e", "t", "a">>
gamma == <<"g", "a", "m", "m", "a">>
zzz == <<"z", "z", "z">>
\* A word longer than MaxChunkSize + 1.
longword == <<"c", "c", "c", "c", "c", "c", "c", "c", "c">>

\* "alpha beta gamma alpha beta alpha"
ExampleText ==
  alpha \o SP \o beta \o SP \o gamma \o SP \o alpha \o SP \o beta \o SP \o alpha

\* "ccccccccc ab ba"
LongText == longword \o SP \o ab \o SP \o ba

Pieces == {ab, ab \o SP, SP \o ba \o SP, longword \o SP, SP}

RECURSIVE Flatten(_)
Flatten(ss) == IF ss = <<>> THEN <<>> ELSE Head(ss) \o Flatten(Tail(ss))

Texts ==
  {Flatten(ps) : ps \in UNION {[1..n -> Pieces] : n \in 0..MaxPieces}}
    \cup {LongText}

\* 11 is the chunk size of the worked example on ExampleText.
ChunkSizes == ((0 - 1) .. MaxChunkSize) \cup {11, DefaultChunkSize}

Ks == ((0 - 1) .. MaxK) \cup {DefaultK}

Range(s) == {s[i] : i \in DOMAIN s}

\* ------------------------------------------------------- str.split/strip
\* Length of the longest prefix of s without a space.
RECURSIVE WordLen(_)
WordLen(s) ==
  IF s = <<>> \/ Head(s) = " " THEN 0 ELSE 1 + WordLen(Tail(s))

\* text.split(): the maximal runs of non-whitespace characters, in order.
RECURSIVE split(_)
split(s) ==
  IF s = <<>> THEN <<>>
  ELSE IF Head(s) = " " THEN split(Tail(s))
  ELSE LET n == WordLen(s)
       IN  <<SubSeq(s, 1, n)>> \o split(SubSeq(s, n + 1, Len(s)))

RECURSIVE lstrip(_)
lstrip(s) == IF s # <<>> /\ Head(s) = " " THEN lstrip(Tail(s)) ELSE s

RECURSIVE rstrip(_)
rstrip(s) ==
  IF s # <<>> /\ s[Len(s)] = " " THEN rstrip(SubSeq(s, 1, Len(s) - 1)) ELSE s

\* current_chunk.strip()
strip(s) == lstrip(rstrip(s))

\* " ".join(parts)
RECURSIVE join(_)
join(parts) ==
  IF parts = <<>> THEN <<>>
  ELSE IF Len(parts) = 1 THEN parts[1]
  ELSE parts[1] \o SP \o join(Tail(parts))

\* ----------------------------------------------------- split_into_chunks
\* Fits with the length of the fragment so far (the buffer without the
\* separator written after its last word) in place of the buffer's length.
FitsStripped(current_chunk, word, chunk_size) ==
  Len(strip(current_chunk)) + Len(word) + 1 <= chunk_size

\* Fits without the length of the word that is to be added.
FitsNoWord(current_chunk, word, chunk_size) ==
  Len(current_chunk) + 1 <= chunk_size

\* The test of line 89: the word goes into current_chunk.
Fits(current_chunk, word, chunk_size) ==
  Len(current_chunk) + Len(word) + 1 <= chunk_size

\* ChunkLoop without the final append of lines 96-97.
RECURSIVE ChunkLoopNoLast(_, _, _, _)
ChunkLoopNoLast(words, chunks, current_chunk, chunk_size) ==
  IF words = <<>>
  THEN chunks
  ELSE LET word == Head(words)
       IN  IF Fits(current_chunk, word, chunk_size)
           THEN ChunkLoopNoLast(Tail(words), chunks,
                                current_chunk \o word \o SP, chunk_size)
           ELSE ChunkLoopNoLast(Tail(words),
                                Append(chunks, strip(current_chunk)),
                                word \o SP, chunk_size)

\* The for loop of lines 88-93 and the final append of lines 96-97.
RECURSIVE ChunkLoop(_, _, _, _)
ChunkLoop(words, chunks, current_chunk, chunk_size) ==
  IF words = <<>>
  THEN IF current_chunk # <<>>
       THEN Append(chunks, strip(current_chunk))
       ELSE chunks
  ELSE LET word == Head(words)
       IN  IF Fits(current_chunk, word, chunk_size)
           THEN ChunkLoop(Tail(words), chunks,
                          current_chunk \o word \o SP, chunk_size)
           ELSE ChunkLoop(Tail(words), Append(chunks, strip(current_chunk)),
                          word \o SP, chunk_size)

split_into_chunks(t, chunk_size) == ChunkLoop(split(t), <<>>, <<>>, chunk_size)

\* ------------------------------------------ TfidfVectorizer (line 119)
\* The analyzer with the default token_pattern (?u)\b\w\w+\b : on text made
\* of lower-case letters and spaces, the words of two or more characters.
RECURSIVE KeepTerms(_)
KeepTerms(words) ==
  IF words = <<>> THEN <<>>
  ELSE IF Len(Head(words)) >= 2
       THEN <<Head(words)>> \o KeepTerms(Tail(words))
       ELSE KeepTerms(Tail(words))

analyze(doc) == KeepTerms(split(doc))

\* Raw term frequency of term t in doc.
tf(t, doc) ==
  LET ws == analyze(doc) IN Cardinality({i \in DOMAIN ws : ws[i] = t})

\* vocabulary_ learnt by fit: the distinct terms of all documents.
vocabulary(docs) == UNION {Range(analyze(docs[i])) : i \in DOMAIN docs}

\* Number of documents that contain term t.
df(t, docs) == Cardinality({i \in DOMAIN docs : tf(t, docs[i]) > 0})

\* 10 * ln(m), rounded: the weights are fixed-point numbers with one
\* decimal digit.
LnDeci(m) ==
  CASE m = 1 -> 0   [] m = 2 -> 7   [] m = 3 -> 11  [] m = 4 -> 14
    [] m = 5 -> 16  [] m = 6 -> 18  [] m = 7 -> 19  [] m = 8 -> 21
    [] m = 9 -> 22  [] m = 10 -> 23 [] m = 11 -> 24 [] OTHER -> 25

\* smooth_idf=True: idf(t) = ln((1 + n) / (1 + df(t))) + 1, times 10.
idf(t, docs) == 10 + LnDeci(1 + Len(docs)) - LnDeci(1 + df(t, docs))

\* One row of transform(): tf * idf over the frozen vocabulary.  The L2
\* normalisation of the row is left out: cosine_similarity normalises its
\* arguments again, and the cosine does not depend on the scale of a row.
tfidf(doc, vocab, idfs) == [t \in vocab |-> tf(t, doc) * idfs[t]]

RECURSIVE SumOver(_, _)
SumOver(S, f) ==
  IF S = {} THEN 0
  ELSE LET t == CHOOSE x \in S : TRUE IN f[t] + SumOver(S \ {t}, f)

Dot(u, v) == SumOver(DOMAIN u, [t \in DOMAIN u |-> u[t] * v[t]])

\* ------------------------------------------- cosine_similarity (line 140)
\* cosine2 that gives two zero vectors the cosine 1 (0/0 taken as 1).
cosine2ZeroIsOne(u, v) ==
  LET uu == Dot(u, u)
      vv == Dot(v, v)
      uv == Dot(u, v)
  IN  IF uu = 0 \/ vv = 0 THEN [num |-> 1, den |-> 1]
      ELSE [num |-> uv * uv, den |-> uu * vv]

\* The square of the cosine of u and v as a fraction num/den; a zero vector
\* has cosine 0 with every vector (sklearn's normalize leaves a zero row
\* zero).  All weights are non-negative, so the squares order as the cosines.
cosine2(u, v) ==
  LET uu == Dot(u, u)
      vv == Dot(v, v)
      uv == Dot(u, v)
  IN  IF uu = 0 \/ vv = 0 THEN [num |-> 0, den |-> 1]
      ELSE [num |-> uv * uv, den |-> uu * vv]

\* Comparison of the fractions a/b and c/d (b, d > 0) by their continued
\* fractions, without forming the cross products: -1, 0 or 1.
RECURSIVE FracCmp(_, _, _, _)
FracCmp(a, b, c, d) ==
  LET qa == a \div b
      qc == c \div d
      ra == a % b
      rc == c % d
  IN  IF qa < qc THEN 0 - 1
      ELSE IF qa > qc THEN 1
      ELSE IF ra = 0 /\ rc = 0 THEN 0
      ELSE IF ra = 0 THEN 0 - 1
      ELSE IF rc = 0 THEN 1
      ELSE FracCmp(d, rc, b, ra)

SimLess(x, y) == FracCmp(x.num, x.den, y.num, y.den) < 0
SimEq(x, y) == FracCmp(x.num, x.den, y.num, y.den) = 0
SimLeq(x, y) == FracCmp(x.num, x.den, y.num, y.den) <= 0

\* ------------------------------------------------ numpy argsort (line 142)
\* ndarray.argsort() with the default kind ('quicksort') is not a stable
\* sort: it returns some permutation of the positions that puts the values
\* in non-decreasing order, and which one among equal values depends on the
\* numpy build.  ArgSorts is the set of the permutations it may return.
RECURSIVE ArgSortsOf(_, _)
ArgSortsOf(S, sims) ==
  IF S = {} THEN {<<>>}
  ELSE LET least == {i \in S : \A j \in S : SimLeq(sims[i], sims[j])}
       IN  UNION {{<<i>> \o p : p \in ArgSortsOf(S \ {i}, sims)} : i \in least}

ArgSorts(sims) == ArgSortsOf(DOMAIN sims, sims)

\* a[start:] of Python, for a sequence a and an integer start.
SliceFrom(a, start) ==
  LET n == Len(a)
      lo == IF start < 0 THEN (IF n + start < 0 THEN 0 ELSE n + start)
            ELSE (IF start > n THEN n ELSE start)
  IN  SubSeq(a, lo + 1, n)

\* a[::-1]
Reverse(a) == [i \in 1..Len(a) |-> a[Len(a) + 1 - i]]

\* TopK that takes the first k positions of the order: argsort()[:k][::-1].
TopKLeast(order, kk) ==
  Reverse(SubSeq(order, 1, IF kk > Len(order) THEN Len(order) ELSE kk))

\* similarities.argsort()[-k:][::-1], for one outcome order of argsort.
TopK(order, kk) == Reverse(SliceFrom(order, 0 - kk))

\* ------------------------------------------------- create_vector_store
\* The vectorizer before fit.
Unfitted == [fitted |-> FALSE, vocabulary_ |-> {}, idf_ |-> <<>>]

\* TfidfVectorizer().fit(chunks): the vocabulary and its idf weights.
fit(docs) ==
  [fitted |-> TRUE,
   vocabulary_ |-> vocabulary(docs),
   idf_ |-> [t \in vocabulary(docs) |-> idf(t, docs)]]

\* vectorizer.transform(docs): one row per document.
transform(vz, docs) ==
  [i \in 1..Len(docs) |-> tfidf(docs[i], vz.vocabulary_, vz.idf_)]

\* A fit that accepts an empty vocabulary.
FitNeverRaises(docs) == FALSE

\* fit raises ValueError("empty vocabulary; ...") when no document has a
\* term, which is the case of an empty list of chunks.
FitRaises(docs) == vocabulary(docs) = {}

\* --------------------------------------------- retrieve_relevant_chunks
\* cosine_similarity(query_vector, vectors)[0]
Similarities(vz, vecs, q) ==
  LET query_vector == transform(vz, <<q>>)[1]
  IN  [i \in 1..Len(vecs) |-> cosine2(query_vector, vecs[i])]

\* The questions asked of an index: every chunk verbatim, every word of the
\* document, and a question none of whose terms is in the vocabulary.
Queries(t, cks) == Range(cks) \cup Range(split(t)) \cup {zzz}

VARIABLES
  pc,              \* where main() is: "start", "chunked", "ready",
                   \* "answered" (a question was answered), "aborted"
  text,            \* the extracted document text
  chunk_size,      \* the chunk_size Split was called with
  chunks,          \* the chunks (the third component of the vector store)
  vectorizer,      \* the TfidfVectorizer
  vectors,         \* the TF-IDF rows, one per chunk
  error,           \* the exception that ended main(), or "none"
  query,           \* the last question
  k,               \* the k of the last question
  similarities,    \* its similarities, one per chunk
  top_k_indices,   \* its top_k_indices
  relevant_chunks  \* the list it returned

vars == <<pc, text, chunk_size, chunks, vectorizer, vectors, error,
          query, k, similarities, top_k_indices, relevant_chunks>>

storeVars == <<vectorizer, vectors>>
queryVars == <<query, k, similarities, top_k_indices, relevant_chunks>>

Init ==
  /\ pc = "start"
  /\ \/ text \in Texts
     \/ text = ExampleText
  /\ chunk_size = DefaultChunkSize
  /\ chunks = <<>>
  /\ vectorizer = Unfitted
  /\ vectors = <<>>
  /\ error = "none"
  /\ query = <<>>
  /\ k = DefaultK
  /\ similarities = <<>>
  /\ top_k_indices = <<>>
  /\ relevant_chunks = <<>>

\* chunks = split_into_chunks(text, chunk_size).  The example text is split
\* with the chunk size of its example only.
Split ==
  /\ pc = "start"
  /\ \E cs \in ChunkSizes :
       /\ text = ExampleText => cs = 11
       /\ chunk_size' = cs
       /\ chunks' = split_into_chunks(text, cs)
  /\ pc' = "chunked"
  /\ UNCHANGED <<text, storeVars, error, queryVars>>

\* vectorizer, vectors, chunks = create_vector_store(chunks)
create_vector_store ==
  /\ pc = "chunked"
  /\ IF FitRaises(chunks)
     THEN /\ error' = "ValueError: empty vocabulary"
          /\ pc' = "aborted"
          /\ UNCHANGED storeVars
     ELSE /\ vectorizer' = fit(chunks)
          /\ vectors' = transform(fit(chunks), chunks)
          /\ pc' = "ready"
          /\ UNCHANGED error
  /\ UNCHANGED <<text, chunk_size, chunks, queryVars>>

\* retrieve_relevant_chunks that ranks by sorting the caller's list of chunks
\* in place (most similar first) and returns its first k elements; the rows
\* of vectors stay where they are.
retrieve_sorting_in_place ==
  /\ pc = "ready"
  /\ \E q \in Queries(text, chunks), kk \in Ks :
       LET sims == Similarities(vectorizer, vectors, q)
       IN  \E order \in ArgSorts(sims) :
             /\ query' = q
             /\ k' = kk
             /\ similarities' = sims
             /\ top_k_indices' = TopK(order, kk)
             /\ chunks' = [j \in 1..Len(order) |-> chunks[Reverse(order)[j]]]
             /\ relevant_chunks' =
                  [j \in 1..Len(TopK(order, kk)) |-> chunks[TopK(order, kk)[j]]]
  /\ pc' = "answered"
  /\ UNCHANGED <<text, chunk_size, storeVars, error>>

\* relevant_chunks = retrieve_relevant_chunks(question, vectorizer, vectors,
\*                                            chunks, k)
retrieve_relevant_chunks ==
  /\ pc = "ready"
  /\ \E q \in Queries(text, chunks), kk \in Ks :
       LET sims == Similarities(vectorizer, vectors, q)
       IN  \E order \in ArgSorts(sims) :
             /\ query' = q
             /\ k' = kk
             /\ similarities' = sims
             /\ top_k_indices' = TopK(order, kk)
             /\ relevant_chunks' =
                  [j \in 1..Len(TopK(order, kk)) |-> chunks[TopK(order, kk)[j]]]
  /\ pc' = "answered"
  /\ UNCHANGED <<text, chunk_size, chunks, storeVars, error>>

\* The interactive loop of main() goes round: the answer was printed, the
\* locals of the last call are gone and the next question is read.
next_question ==
  /\ pc = "answered"
  /\ pc' = "ready"
  /\ query' = <<>>
  /\ k' = DefaultK
  /\ similarities' = <<>>
  /\ top_k_indices' = <<>>
  /\ relevant_chunks' = <<>>
  /\ UNCHANGED <<text, chunk_size, chunks, storeVars, error>>

Next ==
  \/ Split
  \/ create_vector_store
  \/ retrieve_relevant_chunks
  \/ next_question

Spec == Init /\ [][Next]_vars

\* ------------------------------------------------------------ properties
SplitDone == pc # "start"

\* The words of chunk i.
ChunkWords(i) == split(chunks[i])

\* C1 (as stated): Split of "alpha beta gamma alpha beta alpha" with
\* chunk_size = 11 returns the three fragments "alpha beta", "gamma alpha",
\* "beta alpha".
C1_Original ==
  (SplitDone /\ text = ExampleText /\ chunk_size = 11)
    => chunks = <<alpha \o SP \o beta, gamma \o SP \o alpha,
                  beta \o SP \o alpha>>

\* C1 (amended): Split of "alpha beta gamma alpha beta alpha" with
\* chunk_size = 11 returns the four fragments "alpha beta", "gamma",
\* "alpha beta", "alpha"; the buffer whose length is tested carries the
\* separator written after each word, so a fragment of more than one word
\* has at most chunk_size - 1 characters.
C1_Amended ==
  /\ (SplitDone /\ text = ExampleText /\ chunk_size = 11)
        => chunks = <<alpha \o SP \o beta, gamma, alpha \o SP \o beta, alpha>>
  /\ SplitDone =>
        \A i \in DOMAIN chunks :
          Len(ChunkWords(i)) > 1 => Len(chunks[i]) <= chunk_size - 1

C1_Witness ==
  /\ pc = "chunked"
  /\ text = ExampleText
  /\ chunk_size = 11
  /\ Len(chunks) = 4
  /\ Len(chunks[1]) = chunk_size - 1

\* C4 (as stated): Split with chunk_size <= 0 fails with InvalidArgument and
\* returns no fragments, whatever the text.
C4_Claim ==
  (SplitDone /\ chunk_size <= 0)
    => (pc = "aborted" /\ error = "InvalidArgument" /\ chunks = <<>>)

\* C5: with a non-empty text and chunk_size > 0, every fragment of more than
\* one token, and every fragment that is one token no longer than chunk_size,
\* has at most chunk_size characters.
C5_ChunkSizeBound ==
  (SplitDone /\ text # <<>> /\ chunk_size > 0)
    => \A i \in DOMAIN chunks :
         (\/ Len(ChunkWords(i)) > 1
          \/ (Len(ChunkWords(i)) = 1 /\ Len(ChunkWords(i)[1]) <= chunk_size))
           => Len(chunks[i]) <= chunk_size

\* A fragment of two tokens next to a fragment that is one over-long token.
C5_Witness ==
  /\ pc = "chunked"
  /\ chunk_size > 0
  /\ \E i, j \in DOMAIN chunks :
       /\ Len(ChunkWords(i)) > 1
       /\ Len(ChunkWords(j)) = 1
       /\ Len(chunks[j]) > chunk_size

\* C6: for chunk_size > 0 the fragments joined by single spaces have the
\* token sequence of the text.
C6_Reconstructible ==
  (SplitDone /\ chunk_size > 0) => split(join(chunks)) = split(text)

\* A text with a run of two spaces, cut into several fragments.
C6_Witness ==
  /\ pc = "chunked"
  /\ chunk_size > 0
  /\ Len(chunks) >= 2
  /\ \E i \in 1..(Len(text) - 1) : text[i] = " " /\ text[i + 1] = " "
  /\ split(join(chunks)) = split(text)

Answered == pc = "answered"

\* The number of indexed fragments.
NumFragments == Len(chunks)

Min(a, b) == IF a < b THEN a ELSE b

\* The positions Query left out of its result.
LeftOut == DOMAIN chunks \ Range(top_k_indices)

\* The last query has terms and none of them is in the vocabulary frozen at
\* Build.
UnknownQuery ==
  /\ analyze(query) # <<>>
  /\ Range(analyze(query)) \cap vectorizer.vocabulary_ = {}

\* The index was built from the fragments of a Split with chunk_size > 0
\* that are all non-empty.
ProperIndex == chunk_size > 0 /\ \A i \in DOMAIN chunks : chunks[i] # <<>>

AllSimilaritiesZero ==
  \A i \in DOMAIN similarities : similarities[i].num = 0

\* C2 (as stated): of two fragments of equal similarity, the one with the
\* lower index comes first in the result, and it is the one kept when only
\* one of them is in the top k.
C2_Claim ==
  (Answered /\ ProperIndex /\ k > 0) =>
    /\ \A a, b \in DOMAIN top_k_indices :
         (a < b /\ SimEq(similarities[top_k_indices[a]],
                         similarities[top_k_indices[b]]))
           => top_k_indices[a] < top_k_indices[b]
    /\ \A i \in Range(top_k_indices), j \in LeftOut :
         SimEq(similarities[i], similarities[j]) => i < j

\* C3 (as stated): Query with k <= 0 fails with InvalidArgument and returns
\* no fragments.
C3_Claim ==
  (Answered /\ ProperIndex /\ k <= 0) => (error = "InvalidArgument" /\ relevant_chunks = <<>>)

\* C7: for k > 0 Query returns min(k, n) distinct fragments of the n indexed
\* ones, in non-increasing order of similarity, none of the fragments left
\* out is more similar than a returned one, and no error is raised.
C7_TopK ==
  (Answered /\ k > 0) =>
    /\ error = "none"
    /\ Len(top_k_indices) = Min(k, NumFragments)
    /\ Len(relevant_chunks) = Min(k, NumFragments)
    /\ \A a \in DOMAIN top_k_indices :
         /\ top_k_indices[a] \in DOMAIN chunks
         /\ relevant_chunks[a] = chunks[top_k_indices[a]]
    /\ \A a, b \in DOMAIN top_k_indices :
         a < b => /\ top_k_indices[a] # top_k_indices[b]
                  /\ SimLeq(similarities[top_k_indices[b]],
                            similarities[top_k_indices[a]])
    /\ \A i \in Range(top_k_indices), j \in LeftOut :
         SimLeq(similarities[j], similarities[i])

\* k exceeds the number of fragments, whose similarities differ.
C7_Witness ==
  /\ Answered
  /\ k > NumFragments
  /\ NumFragments >= 2
  /\ Len(relevant_chunks) = NumFragments
  /\ \E i, j \in DOMAIN chunks : SimLess(similarities[i], similarities[j])

\* C8 (as stated): a fragment given verbatim as the query is at position 0
\* of the result, unless a duplicate of it has a lower index.
C8_Claim ==
  (Answered /\ ProperIndex /\ k > 0) =>
    \A i \in DOMAIN chunks :
      (chunks[i] = query /\ \A j \in 1..(i - 1) : chunks[j] # chunks[i])
        => (top_k_indices # <<>> /\ top_k_indices[1] = i)

\* C9 (as stated): a query of unknown terms only gives every fragment the
\* similarity 0 and Query returns k fragments, without an error.
C9_Original ==
  (Answered /\ ProperIndex /\ UnknownQuery /\ k > 0) =>
    /\ error = "none"
    /\ AllSimilaritiesZero
    /\ Len(relevant_chunks) = k

\* C9 (amended): a query of unknown terms only gives every fragment the
\* similarity 0 and Query, for k > 0, returns min(k, n) fragments of the n
\* indexed ones, without an error.
C9_Amended ==
  (Answered /\ UnknownQuery /\ k > 0) =>
    /\ error = "none"
    /\ AllSimilaritiesZero
    /\ Len(relevant_chunks) = Min(k, NumFragments)

C9_Witness ==
  /\ Answered
  /\ query = zzz
  /\ vectorizer.vocabulary_ # {}
  /\ k > NumFragments
  /\ Len(relevant_chunks) = NumFragments

\* C10: Build of an empty sequence of fragments fails on the empty corpus
\* and leaves no index; an empty text gives Split an empty sequence, so the
\* pipeline stops at Build and no Query runs.
C10_EmptyCorpus ==
  /\ (SplitDone /\ text = <<>>) => chunks = <<>>
  /\ (pc \notin {"start", "chunked"} /\ chunks = <<>>) =>
       /\ pc = "aborted"
       /\ error = "ValueError: empty vocabulary"
       /\ vectorizer = Unfitted
       /\ vectors = <<>>
       /\ relevant_chunks = <<>>

C10_Witness ==
  /\ pc = "aborted"
  /\ text = <<>>
  /\ chunks = <<>>
  /\ error = "ValueError: empty vocabulary"

\* The index is built: main() is in its question loop.
Built == pc \in {"ready", "answered"}

\* The row at position i is the TF-IDF row of the fragment at position i,
\* over the vocabulary of the vectorizer, and there is one row per fragment.
RowsMatchFragments(vz, vecs, cks) ==
  /\ Len(vecs) = Len(cks)
  /\ \A i \in DOMAIN cks : vecs[i] = tfidf(cks[i], vz.vocabulary_, vz.idf_)

\* C11: once the index is built, no step (a Query, or the loop going round
\* to the next Query) changes the vocabulary, the term-weight vectors or the
\* fragments, and after the step the vector at position i is still that of
\* the fragment at position i, the two sequences having the same length.
C11_IndexUnchanged ==
  [][Built =>
       /\ vectorizer' = vectorizer
       /\ vectors' = vectors
       /\ chunks' = chunks
       /\ RowsMatchFragments(vectorizer', vectors', chunks')]_vars

\* A Query on an index of several fragments has put a fragment other than the
\* first one at the head of its result, and the index is as it was built.
C11_Witness ==
  /\ Answered
  /\ NumFragments >= 2
  /\ top_k_indices # <<>>
  /\ top_k_indices[1] # 1
  /\ vectorizer = fit(chunks)
  /\ RowsMatchFragments(vectorizer, vectors, chunks)

\* C12 (as stated): for chunk_size > 0 no fragment returned by Split is the
\* empty string, also when the first token has chunk_size characters or more.
C12_Claim ==
  (SplitDone /\ chunk_size > 0) =>
    \A i \in DOMAIN chunks : chunks[i] # <<>> /\ ChunkWords(i) # <<>>
====
